---- MODULE Spec2Model ----
(***************************************************************************)
(* lovely-service: the request pipeline of the API sub-application         *)
(* (MiddlewareMain.server_error_handler wrapping MiddlewareMain.prepare_data *)
(* wrapping a route handler, with the ELK logging helpers log_request,     *)
(* log_response and log_error), the handlers of service.routing.v1.project *)
(* on the table Project, envelope serialization, and the startup and       *)
(* shutdown of the application built by get_app.                           *)
(*                                                                         *)
(* Each await of the middleware chain is one action.  A request's inputs   *)
(* (handler, body, headers) are chosen when it is received.                *)
(*                                                                         *)
(*   Spec            the pipeline on one connection, for every handler     *)
(*                   annotation, body and logger state; the handler is any *)
(*                   return or exception.                                  *)
(*   SpecConcurrent  the same pipeline with two requests in flight.        *)
(*   SpecApp         get_app's application: startup, the five routes with  *)
(*                   their queries on the table, shutdown.                 *)
(***************************************************************************)
EXTENDS Integers, Sequences, FiniteSets, TLC

VARIABLES
    elk,        \* request.app["ELKAsync"]: "absent", "unopened" (no self.logger) or "open"
    nextUuid,   \* number of uuid.uuid4() values drawn so far
    phase,      \* per connection: the await the request is suspended at
    req,        \* per connection: the request (handler, body, headers)
    req_id,     \* per connection: req_id of server_error_handler
    data,       \* per connection: request["data"]
    exc,        \* per connection: the exception being handled, or NoExc
    failedAt,   \* per connection: the step whose exception entered the except clauses
    status,     \* per connection: status code of the except clause taken
    response,   \* per connection: the response object built so far
    sink,       \* per connection: events the logger emitted for req_id
    trace,      \* per connection: observable steps of the request, in order
    config,     \* Config: ELK_ENABLE, and whether ELK_HOST resolves
    lifecycle,  \* the application: its stage, the setup calls made, the startup error
    storage,    \* request.app["Storage"].connection: "None" or "Pool"
    project,    \* the rows of the table Project
    inserted,   \* number of rows ever inserted (the ids drawn for rows)
    utcnow      \* the clock datetime.utcnow() reads, in seconds

\* The application around the pipeline.
appVars == <<config, lifecycle, storage, project, inserted, utcnow>>

vars == <<elk, nextUuid, phase, req, req_id, data, exc, failedAt, status,
          response, sink, trace, config, lifecycle, storage, project,
          inserted, utcnow>>

\* Number of requests served in one behaviour.
MaxRequests == 2

\* The connection whose requests are followed.  The pipeline keeps its
\* state in the locals of one server_error_handler call and in the request
\* object; requests share elk and the uuid generator only.
Conns == {"c1"}

-----------------------------------------------------------------------------
(* Exceptions *)

NoMsg == <<"", "">>

NoExc == [type |-> "", msg |-> NoMsg]

Exc(t, m) == [type |-> t, msg |-> m]

\* BadRequestError of service.middleware.exceptions: an Exception subclass
\* whose str() is the message it was constructed with.
BadRequestErrorBases == {"BadRequestError", "Exception"}

\* The classes an exception of type t is an instance of.
Bases(t) ==
    CASE t = "HTTPUnauthorized" -> {"HTTPUnauthorized", "HTTPException", "Exception"}
      [] t = "HTTPNotFound"     -> {"HTTPNotFound", "HTTPException", "Exception"}
      [] t = "BadRequestError"  -> BadRequestErrorBases
      [] t = "UserWarning"      -> {"UserWarning", "Warning", "Exception"}
      [] t = "RuntimeWarning"   -> {"RuntimeWarning", "Warning", "Exception"}
      [] t = "ValidationError"  -> {"ValidationError", "ValueError", "Exception"}
      [] t = "JSONDecodeError"  -> {"JSONDecodeError", "ValueError", "Exception"}
      [] OTHER                  -> {t, "Exception"}

BadRequestError(m) == Exc("BadRequestError", m)

-----------------------------------------------------------------------------
(* Requests *)

\* The handlers of get_routes_v1.
RoutesV1 == {"create", "read", "update", "delete", "list"}

\* Handlers the middleware chain is applied to: the routes, a handler whose
\* data annotation is a Union, one whose annotation is not a pydantic
\* model, and one with no data annotation.
Handlers == RoutesV1 \cup {"union", "raw", "health_check"}

\* handler.__annotations__["data"]: the classes named, in order.
Annotation(h) ==
    CASE h = "create" -> <<"RequestProjectCreate">>
      [] h = "read"   -> <<"RequestProjectRead">>
      [] h = "update" -> <<"RequestProjectUpdate">>
      [] h = "delete" -> <<"RequestProjectDelete">>
      [] h = "list"   -> <<"RequestProjectList">>
      [] h = "union"  -> <<"RequestProjectCreate", "RequestProjectUpdate">>
      [] h = "raw"    -> <<"dict">>
      [] OTHER        -> <<>>

HasDataAnnotation(h) == Annotation(h) # <<>>

IsUnion(h) == Len(Annotation(h)) > 1

IsModel(cls) ==
    cls \in {"RequestProjectCreate", "RequestProjectRead", "RequestProjectUpdate",
             "RequestProjectDelete", "RequestProjectList"}

\* datetime values: seconds, microseconds, and tzinfo ("naive" or "utc");
\* None where a datetime is optional.
DateTime(sec, micro, tz) == [sec |-> sec, micro |-> micro, tz |-> tz]

None == [sec |-> 0, micro |-> 0, tz |-> "none"]

\* The members of ProjectList: each is left out of the body, given as null,
\* or given as a datetime.
Unset == [set |-> FALSE, value |-> None]

Given(v) == [set |-> TRUE, value |-> v]

NoFilter ==
    [created_gt |-> Unset, created_lt |-> Unset, updated_gt |-> Unset,
     updated_lt |-> Unset]

\* The values of the members of "params": name, id, the items of a list
\* of ids, and the members of ProjectList.
Args(name, id, ids, filter) == [name |-> name, id |-> id, ids |-> ids, filter |-> filter]

NoArgs == Args("", 0, <<>>, NoFilter)

\* Request bodies: text that is not JSON, JSON null, a JSON array, or a JSON
\* object whose "params" member is one of Params.
Params == {"absent", "name", "id_name", "uuids", "baduuid", "filters"}

Body(json, params, args) == [json |-> json, params |-> params, args |-> args]

Bodies ==
    {Body(j, "absent", NoArgs) : j \in {"malformed", "null", "array"}}
        \cup {Body("object", p, NoArgs) : p \in Params}

\* The members of "params": its container, whether "name" is a string,
\* what "id" is, and what the items of a list are.
ParamFields(p) ==
    CASE p = "name"    -> [container |-> "dict", name |-> TRUE,  id |-> "missing", items |-> "none"]
      [] p = "id_name" -> [container |-> "dict", name |-> TRUE,  id |-> "uuid",    items |-> "none"]
      [] p = "uuids"   -> [container |-> "list", name |-> FALSE, id |-> "missing", items |-> "uuid"]
      [] p = "baduuid" -> [container |-> "list", name |-> FALSE, id |-> "missing", items |-> "bad"]
      [] p = "filters" -> [container |-> "dict", name |-> FALSE, id |-> "missing", items |-> "none"]
      [] OTHER         -> [container |-> "missing", name |-> FALSE, id |-> "missing", items |-> "none"]

\* request.headers as (name, value) pairs.
CredentialNames == {"Authorization", "authorization", "AUTHORIZATION"}

ContentType == <<"Content-Type", "application/json">>

HeaderSets ==
    {{ContentType}} \cup {{ContentType, <<n, "Bearer tok">>} : n \in CredentialNames}

-----------------------------------------------------------------------------
(* pydantic models of service.data_classes.project *)

ProjectCreateValid(f) == f.container = "dict" /\ f.name

ProjectUpdateValid(f) == f.container = "dict" /\ f.name /\ f.id = "uuid"

\* List[UUID] replaced by a plain list: the items are not checked.
ListUUIDValid_AnyList(f) == f.container = "list"

ListUUIDValid(f) == f.container = "list" /\ f.items = "uuid"

\* ProjectList: every field is Optional, members it does not name are ignored.
ProjectListValid(f) == f.container = "dict"

ParamsValid(cls, f) ==
    CASE cls = "RequestProjectCreate" -> ProjectCreateValid(f)
      [] cls = "RequestProjectUpdate" -> ProjectUpdateValid(f)
      [] cls = "RequestProjectRead"   -> ListUUIDValid(f)
      [] cls = "RequestProjectDelete" -> ListUUIDValid(f)
      [] cls = "RequestProjectList"   -> ProjectListValid(f)
      [] OTHER                        -> FALSE

\* cls(**request_json): "ok", "ValidationError", or "TypeError" when
\* request_json is not a mapping.
Construct(cls, b) ==
    IF b.json # "object" THEN "TypeError"
    ELSE IF ParamsValid(cls, ParamFields(b.params)) THEN "ok"
    ELSE "ValidationError"

NoData == [cls |-> "", params |-> "", args |-> NoArgs]

\* The object cls(**request_json) builds from a body it accepts.
Object(cls, b) == [cls |-> cls, params |-> b.params, args |-> b.args]

-----------------------------------------------------------------------------
(* MiddlewareMain.prepare_data, the validation part *)

\* str(e) of an exception; pydantic's ValidationError has its own text form.
Str(e) ==
    IF e.type = "ValidationError" THEN <<"ValidationError.str", e.msg[2]>>
    ELSE e.msg

\* e.json(indent=0).replace("\n", "").replace('"', "'") of a ValidationError.
Json(e) == <<"ValidationError.json", e.msg[2]>>

JSONDecodeError == Exc("JSONDecodeError", <<"JSONDecodeError", "Expecting value">>)

NotSubclassMsg ==
    <<"Handler data annotation is not a subclass of pydantic.BaseModel.", "">>

SeveralMsg == <<"Request matches several of the classes in the union.", "">>

NoMatch ==
    [data |-> NoData, matched |-> 0, validation_error |-> NoMsg,
     error |-> NoExc, tried |-> 0]

\* The for loop over the classes of the union: a ValidationError is kept
\* and the loop goes on, any other exception leaves the loop.
RECURSIVE UnionLoop(_, _, _, _)
UnionLoop(classes, b, i, acc) ==
    IF i > Len(classes) THEN acc
    ELSE LET r == Construct(classes[i], b) IN
         IF r = "TypeError"
         THEN [acc EXCEPT !.error = Exc("TypeError", <<"TypeError", classes[i]>>),
                          !.tried = i]
         ELSE IF r = "ok"
         THEN UnionLoop(classes, b, i + 1,
                        [acc EXCEPT !.data = Object(classes[i], b),
                                    !.matched = @ + 1,
                                    !.tried = i])
         ELSE UnionLoop(classes, b, i + 1,
                        [acc EXCEPT !.validation_error =
                                        Str(Exc("ValidationError",
                                                <<"ValidationError", classes[i]>>)),
                                    !.tried = i])

\* The except TypeError block: annotation.__args__ exists only on a Union.
UnionBranch(h, b) ==
    IF ~IsUnion(h)
    THEN [NoMatch EXCEPT !.error = Exc("AttributeError", <<"AttributeError", "__args__">>),
                         !.tried = 1]
    ELSE LET acc == UnionLoop(Annotation(h), b, 1, NoMatch) IN
         IF acc.error # NoExc THEN acc
         ELSE IF acc.matched = 0
         THEN [acc EXCEPT !.error = BadRequestError(acc.validation_error)]
         ELSE IF acc.matched = 1 THEN acc
         ELSE [acc EXCEPT !.error = BadRequestError(SeveralMsg)]

\* The inner try: issubclass(annotation, BaseModel) raises TypeError on a
\* Union, and so does annotation(**request_json) on a non-mapping.
InnerTry(h, b) ==
    IF IsUnion(h) THEN UnionBranch(h, b)
    ELSE LET cls == Annotation(h)[1] IN
         IF ~IsModel(cls)
         THEN [NoMatch EXCEPT !.error = BadRequestError(NotSubclassMsg)]
         ELSE LET r == Construct(cls, b) IN
              IF r = "ok"
              THEN [NoMatch EXCEPT !.data = Object(cls, b), !.matched = 1, !.tried = 1]
              ELSE IF r = "ValidationError"
              THEN [NoMatch EXCEPT !.error = Exc("ValidationError",
                                                 <<"ValidationError", cls>>),
                                   !.tried = 1]
              ELSE UnionBranch(h, b)

\* The outer except clauses left out: the exception leaves prepare_data as
\* it is.
OuterExcept_Reraise(e) == e

\* The two outer except clauses.
OuterExcept(e) ==
    IF "ValidationError" \in Bases(e.type) THEN BadRequestError(Json(e))
    ELSE BadRequestError(Str(e))

\* request.json() awaited before the annotation is looked at: the body is
\* parsed for every handler.
prepare_data_ParseFirst(h, b) ==
    IF b.json = "malformed"
    THEN [data |-> NoData, error |-> OuterExcept(JSONDecodeError),
          parsed |-> TRUE, tried |-> 0, assigned |-> 0]
    ELSE IF ~HasDataAnnotation(h)
    THEN [data |-> NoData, error |-> NoExc, parsed |-> TRUE, tried |-> 0,
          assigned |-> 0]
    ELSE LET in == InnerTry(h, b) IN
         [data |-> in.data,
          error |-> IF in.error = NoExc THEN NoExc ELSE OuterExcept(in.error),
          parsed |-> TRUE, tried |-> in.tried, assigned |-> in.matched]

\* Lines 124-169: what validation leaves in request["data"], the exception
\* it raises (NoExc: none), whether the body was parsed, how many classes
\* were constructed and how many times request["data"] was assigned.
prepare_data(h, b) ==
    IF ~HasDataAnnotation(h)
    THEN [data |-> NoData, error |-> NoExc, parsed |-> FALSE, tried |-> 0,
          assigned |-> 0]
    ELSE IF b.json = "malformed"
    THEN [data |-> NoData, error |-> OuterExcept(JSONDecodeError),
          parsed |-> TRUE, tried |-> 0, assigned |-> 0]
    ELSE LET in == InnerTry(h, b) IN
         [data |-> in.data,
          error |-> IF in.error = NoExc THEN NoExc ELSE OuterExcept(in.error),
          parsed |-> TRUE, tried |-> in.tried, assigned |-> in.matched]

-----------------------------------------------------------------------------
(* Logging helpers of service.middleware.utils *)

\* get_request_body: the type of the decoded body, the raw text when it is
\* not JSON.
get_request_body(b) ==
    CASE b.json = "malformed" -> "str"
      [] b.json = "null"      -> "None"
      [] b.json = "array"     -> "list"
      [] OTHER                -> "dict"

\* ELKLog.body: Union[str, dict, list], required; numbers are coerced to str.
ELKLogBodyValid(v) == v # "None"

ELKValidationError(cls) == Exc("ValidationError", <<"ValidationError", cls>>)

Event(type, id, code, headers) ==
    [type |-> type, request_uuid |-> id, status_code |-> code, headers |-> headers]

\* headers = dict(request.headers); headers.pop("Authorization", None)
PopAuthorization(headers) == {p \in headers : p[1] # "Authorization"}

\* ELKAsync.info / ELKAsync.error: emit only when self.logger is set.
Emit(lg, ev) == IF lg = "open" THEN <<ev>> ELSE <<>>

NoLog == [error |-> NoExc, events |-> <<>>]

log_request(lg, r, id) ==
    IF lg = "absent" THEN NoLog
    ELSE IF ~ELKLogBodyValid(get_request_body(r.body))
    THEN [error |-> ELKValidationError("ELKRequestLog"), events |-> <<>>]
    ELSE [error |-> NoExc,
          events |-> Emit(lg, Event("Request", id, 0, PopAuthorization(r.headers)))]

\* get_response_body: json.loads(response.text).
get_response_body(resp) == IF resp.body.shape = "envelope" THEN "dict" ELSE "int"

log_response(lg, id, resp) ==
    IF lg = "absent" THEN NoLog
    ELSE IF ~ELKLogBodyValid(get_response_body(resp))
    THEN [error |-> ELKValidationError("ELKResponseLog"), events |-> <<>>]
    ELSE [error |-> NoExc, events |-> Emit(lg, Event("Response", id, resp.status, {}))]

log_error(lg, r, id, code) ==
    IF lg = "absent" THEN NoLog
    ELSE IF ~ELKLogBodyValid(get_request_body(r.body))
    THEN [error |-> ELKValidationError("ELKErrorLog"), events |-> <<>>]
    ELSE [error |-> NoExc, events |-> Emit(lg, Event("Error", id, code, {}))]

-----------------------------------------------------------------------------
(* Responses *)

NoResult == [tag |-> "none", error_type |-> "", error_message |-> NoMsg]

\* ErrorResult(error_type=type(e).__name__, error_message=str(e))
ErrorResult(e) == [tag |-> "error", error_type |-> e.type, error_message |-> Str(e)]

\* ResponseFailure(result=...): success defaults to False.
ResponseFailure(e) == [shape |-> "envelope", success |-> FALSE, result |-> ErrorResult(e)]

\* ResponseSuccess and its subclasses: success defaults to True.
ResponseSuccess ==
    [shape |-> "envelope", success |-> TRUE,
     result |-> [tag |-> "value", error_type |-> "", error_message |-> NoMsg]]

\* web.Response(text="200") of health_check.
HealthCheckBody == [shape |-> "text", success |-> FALSE, result |-> NoResult]

NoResponse == [status |-> 0, body |-> [shape |-> "none", success |-> FALSE, result |-> NoResult]]

\* What the handler returns, after prepare_data wrapped a BaseModel in
\* web.json_response.
HandlerResponse(h) ==
    [status |-> 200, body |-> IF h = "health_check" THEN HealthCheckBody ELSE ResponseSuccess]

\* The UserWarning clause written as except Warning.
ExceptStatus_AnyWarning(t) ==
    IF "HTTPUnauthorized" \in Bases(t) THEN 401
    ELSE IF "BadRequestError" \in Bases(t) THEN 400
    ELSE IF "Warning" \in Bases(t) THEN 200
    ELSE 500

\* The except clauses of server_error_handler, in order.
ExceptStatus(t) ==
    IF "HTTPUnauthorized" \in Bases(t) THEN 401
    ELSE IF "BadRequestError" \in Bases(t) THEN 400
    ELSE IF "UserWarning" \in Bases(t) THEN 200
    ELSE 500

-----------------------------------------------------------------------------
(* The table Project and the handlers of service.routing.v1.project *)

\* A row of Project: id, name, created (not null), updated (nullable).
Row(id, name, created, updated) ==
    [id |-> id, name |-> name, created |-> created, updated |-> updated]

Items(seq) == {seq[i] : i \in 1..Len(seq)}

\* a < b on TIMESTAMP values.
Earlier(a, b) == a.sec < b.sec \/ (a.sec = b.sec /\ a.micro < b.micro)

\* The orders in which a query with no ORDER BY may return the rows.
Orderings(rows) ==
    {s \in [1..Cardinality(rows) -> rows] :
        \A i, j \in 1..Cardinality(rows) : s[i] = s[j] => i = j}

\* ORDER BY created DESC.
CreatedDesc(rows) ==
    {s \in Orderings(rows) :
        \A i, j \in 1..Len(s) : i < j => ~Earlier(s[i].created, s[j].created)}

\* What a handler's query does: the table afterwards, the rows the
\* storage returns, in each order it may return them, and the exception
\* raised before the query ran.
Outcome(table, results, error) == [table |-> table, results |-> results, error |-> error]

\* create with a column default on updated as well.
create_UpdatedNow(args, rows, id, created) ==
    LET row == Row(id, args.name, created, created) IN
    Outcome(rows \cup {row}, {<<row>>}, NoExc)

\* create: INSERT ... VALUES (name) RETURNING *, id and created from the
\* column defaults uuid.uuid4 and datetime.utcnow, updated NULL.
create(args, rows, id, created) ==
    LET row == Row(id, args.name, created, None) IN
    Outcome(rows \cup {row}, {<<row>>}, NoExc)

\* read: SELECT ... WHERE id IN (params).
read(args, rows) ==
    Outcome(rows, Orderings({r \in rows : r.id \in Items(args.ids)}), NoExc)

\* update with no WHERE clause: every row takes the name; the row of
\* params.id is the one returned.
update_AllRows(args, rows) ==
    LET new == {[r EXCEPT !.name = args.name] : r \in rows}
        hit == {r \in new : r.id = args.id}
    IN Outcome(new, IF hit = {} THEN {<<>>} ELSE Orderings(hit), NoExc)

\* update: UPDATE ... SET name WHERE id = params.id RETURNING *.
update(args, rows) ==
    LET hit == {r \in rows : r.id = args.id}
        new == {[r EXCEPT !.name = args.name] : r \in hit}
    IN Outcome((rows \ hit) \cup new, Orderings(new), NoExc)

\* delete: DELETE ... WHERE id IN (params); nothing is returned.
delete(args, rows) ==
    Outcome({r \in rows : r.id \notin Items(args.ids)}, {<<>>}, NoExc)

\* lst: params = data.dict(exclude_unset=True)["params"] holds the members
\* the body gave, null ones included; each is compared after
\* .replace(tzinfo=None), which None does not have.
lst(args, rows) ==
    LET f == args.filter
        given == {k \in DOMAIN f : f[k].set}
        match(r) ==
            /\ f.created_gt.set => Earlier(f.created_gt.value, r.created)
            /\ f.created_lt.set => Earlier(r.created, f.created_lt.value)
            /\ f.updated_gt.set =>
                   (r.updated # None /\ Earlier(f.updated_gt.value, r.updated))
            /\ f.updated_lt.set =>
                   (r.updated # None /\ Earlier(r.updated, f.updated_lt.value))
    IN IF \E k \in given : f[k].value = None
       THEN Outcome(rows, {<<>>},
                    Exc("AttributeError", <<"AttributeError", "NoneType.replace">>))
       ELSE Outcome(rows, CreatedDesc({r \in rows : match(r)}), NoExc)

\* The query of handler h on the table.
Execute(h, args, rows, id, created) ==
    CASE h = "create" -> create(args, rows, id, created)
      [] h = "read"   -> read(args, rows)
      [] h = "update" -> update(args, rows)
      [] h = "delete" -> delete(args, rows)
      [] OTHER        -> lst(args, rows)

\* ResponseProject(result=...) / ResponseProjectSeveral(result=...): the
\* success envelope with its typed result.
Typed(kind, rows) ==
    [shape |-> "envelope", success |-> TRUE,
     result |-> [tag |-> "value", error_type |-> "", error_message |-> NoMsg,
                 kind |-> kind, rows |-> rows]]

\* ResponseProject built without validating result: an empty row passes.
ResponseProject_Unvalidated(result) ==
    [error |-> NoExc, body |-> Typed("Project", result)]

\* ResponseProject(result=result): result must be a Project; the {} that
\* fetchrow returns for no row has none of the required fields.
ResponseProject(result) ==
    IF result = <<>>
    THEN [error |-> Exc("ValidationError", <<"ValidationError", "ResponseProject">>),
          body |-> Typed("Project", <<>>)]
    ELSE [error |-> NoExc, body |-> Typed("Project", result)]

ResponseProjectSeveral(result) ==
    [error |-> NoExc, body |-> Typed("List[Project]", result)]

\* The response model handler h builds from what the storage returned.
Respond(h, result) ==
    CASE h \in {"create", "update"} -> ResponseProject(result)
      [] h \in {"read", "list"}     -> ResponseProjectSeveral(result)
      [] OTHER                      -> [error |-> NoExc, body |-> ResponseSuccess]

-----------------------------------------------------------------------------
(* Serialization: BaseClass.json() through orjson_dumps, and parse_raw *)

\* The microseconds rounded to the nearest second instead of left out.
DateTimeText_Rounds(d) ==
    IF d = None THEN [sec |-> 0, micro |-> 0, designator |-> "null"]
    ELSE [sec |-> IF d.micro >= 500000 THEN d.sec + 1 ELSE d.sec, micro |-> 0,
          designator |-> IF d.tz = "utc" THEN "Z" ELSE ""]

\* orjson.dumps of a datetime under OPT_OMIT_MICROSECONDS | OPT_UTC_Z: the
\* microseconds are left out, a UTC tzinfo is written Z, a naive value gets
\* no designator; None is null.
DateTimeText(d) ==
    IF d = None THEN [sec |-> 0, micro |-> 0, designator |-> "null"]
    ELSE [sec |-> d.sec, micro |-> 0,
          designator |-> IF d.tz = "utc" THEN "Z" ELSE ""]

\* value.replace(tzinfo=timezone.utc) where isinstance(value, datetime).
ReplaceTzinfo(d) == IF d = None THEN None ELSE [d EXCEPT !.tz = "utc"]

RowText(r, inList) ==
    [id |-> r.id, name |-> r.name,
     created |-> DateTimeText(IF inList THEN ReplaceTzinfo(r.created) ELSE r.created),
     updated |-> DateTimeText(IF inList THEN ReplaceTzinfo(r.updated) ELSE r.updated)]

\* The kind of result an envelope carries and its rows.
Payload(body) ==
    IF body.result.tag = "error" THEN [kind |-> "ErrorResult", rows |-> <<>>]
    ELSE IF "rows" \in DOMAIN body.result
    THEN [kind |-> body.result.kind, rows |-> body.result.rows]
    ELSE [kind |-> "dict", rows |-> <<>>]

\* orjson_dumps(model.dict()): tzinfo is replaced on the datetimes that are
\* top-level values or members of the dicts of a top-level list, not on
\* those of a dict that is itself a top-level value.
orjson_dumps(body) ==
    LET p == Payload(body) IN
    [success |-> body.success, kind |-> p.kind,
     error_type |-> body.result.error_type,
     error_message |-> body.result.error_message,
     rows |-> [i \in 1..Len(p.rows) |-> RowText(p.rows[i], p.kind = "List[Project]")]]

\* pydantic's datetime parsing of the text form.
ParseDateTime(t) ==
    IF t.designator = "null" THEN None
    ELSE DateTime(t.sec, t.micro, IF t.designator = "Z" THEN "utc" ELSE "naive")

ParseRow(t) ==
    Row(t.id, t.name, ParseDateTime(t.created), ParseDateTime(t.updated))

\* parse_raw of the class that wrote the text: orjson.loads, then the model
\* built from the members.
parse_raw(text) ==
    IF text.kind = "ErrorResult"
    THEN [shape |-> "envelope", success |-> text.success,
          result |-> [tag |-> "error", error_type |-> text.error_type,
                      error_message |-> text.error_message]]
    ELSE IF text.kind = "dict"
    THEN [shape |-> "envelope", success |-> text.success,
          result |-> [tag |-> "value", error_type |-> text.error_type,
                      error_message |-> text.error_message]]
    ELSE [shape |-> "envelope", success |-> text.success,
          result |-> [tag |-> "value", error_type |-> text.error_type,
                      error_message |-> text.error_message, kind |-> text.kind,
                      rows |-> [i \in 1..Len(text.rows) |-> ParseRow(text.rows[i])]]]

-----------------------------------------------------------------------------
(* The request pipeline *)

Finished(c) == phase[c] \in {"responded", "propagated"}

\* No request has arrived yet on the connections C.
Idle(C) ==
    /\ nextUuid = 0
    /\ phase = [c \in C |-> "idle"]
    /\ req = [c \in C |-> [handler |-> "health_check",
                           body |-> Body("malformed", "absent", NoArgs),
                           headers |-> {}]]
    /\ req_id = [c \in C |-> 0]
    /\ data = [c \in C |-> NoData]
    /\ exc = [c \in C |-> NoExc]
    /\ failedAt = [c \in C |-> ""]
    /\ status = [c \in C |-> 0]
    /\ response = [c \in C |-> NoResponse]
    /\ sink = [c \in C |-> <<>>]
    /\ trace = [c \in C |-> <<>>]

\* The middleware mounted in a running application whose startup, storage
\* and table are not followed.
Mounted ==
    /\ config = [ELK_ENABLE |-> FALSE, resolves |-> TRUE]
    /\ lifecycle = [stage |-> "serving", calls |-> <<>>, error |-> NoExc]
    /\ storage = "Pool"
    /\ project = {}
    /\ inserted = 0
    /\ utcnow = 0

Init ==
    /\ elk \in {"absent", "unopened", "open"}
    /\ Idle(Conns)
    /\ Mounted

\* A request arrives and server_error_handler starts: req_id = uuid.uuid4().
Receive(c, h, b, hd) ==
    /\ phase[c] = "idle" \/ Finished(c)
    /\ nextUuid < MaxRequests
    /\ nextUuid' = nextUuid + 1
    /\ req_id' = [req_id EXCEPT ![c] = nextUuid + 1]
    /\ req' = [req EXCEPT ![c] = [handler |-> h, body |-> b, headers |-> hd]]
    /\ phase' = [phase EXCEPT ![c] = "log_request"]
    /\ data' = [data EXCEPT ![c] = NoData]
    /\ exc' = [exc EXCEPT ![c] = NoExc]
    /\ failedAt' = [failedAt EXCEPT ![c] = ""]
    /\ status' = [status EXCEPT ![c] = 0]
    /\ response' = [response EXCEPT ![c] = NoResponse]
    /\ sink' = [sink EXCEPT ![c] = <<>>]
    /\ trace' = [trace EXCEPT ![c] = <<>>]
    /\ UNCHANGED appVars
    /\ UNCHANGED elk

\* An exception e raised at step `at` inside the try reaches the first except
\* clause that matches it, which builds the ResponseFailure and awaits
\* log_error.
Except(c, e, at) ==
    /\ exc' = [exc EXCEPT ![c] = e]
    /\ failedAt' = [failedAt EXCEPT ![c] = at]
    /\ status' = [status EXCEPT ![c] = ExceptStatus(e.type)]
    /\ response' = [response EXCEPT ![c] = [status |-> 0, body |-> ResponseFailure(e)]]
    /\ phase' = [phase EXCEPT ![c] = "log_error"]

Logged(c, events) ==
    /\ sink' = [sink EXCEPT ![c] = @ \o events]
    /\ trace' = [trace EXCEPT ![c] = @ \o [i \in 1..Len(events) |-> events[i].type]]

\* await log_request(request, req_id, logger=logger)
LogRequest(c) ==
    /\ phase[c] = "log_request"
    /\ LET out == log_request(elk, req[c], req_id[c]) IN
        /\ Logged(c, out.events)
        /\ IF out.error # NoExc
           THEN Except(c, out.error, "log_request")
           ELSE /\ phase' = [phase EXCEPT ![c] = "prepare_data"]
                /\ UNCHANGED <<exc, failedAt, status, response>>
    /\ UNCHANGED appVars
    /\ UNCHANGED <<elk, nextUuid, req, req_id, data>>

\* The steps of validation a request shows: the body was parsed, and
\* request["data"] was assigned once per class that accepted it.
Validated(out) ==
    IF out.parsed THEN <<"validate">> \o [i \in 1..out.assigned |-> "assign"]
    ELSE <<>>

\* prepare_data with the failure of validation swallowed: the handler is
\* called whatever validation found.
PrepareData_IgnoresFailure(c) ==
    /\ phase[c] = "prepare_data"
    /\ LET out == prepare_data(req[c].handler, req[c].body) IN
        /\ data' = [data EXCEPT ![c] = out.data]
        /\ trace' = [trace EXCEPT ![c] = @ \o Validated(out)]
    /\ phase' = [phase EXCEPT ![c] = "handler"]
    /\ UNCHANGED appVars
    /\ UNCHANGED <<elk, nextUuid, req, req_id, sink, exc, failedAt, status, response>>

\* prepare_data keeping the validated object in a place all requests share.
PrepareData_SharedData(c) ==
    /\ phase[c] = "prepare_data"
    /\ LET out == prepare_data(req[c].handler, req[c].body) IN
        /\ data' = [d \in DOMAIN data |-> out.data]
        /\ trace' = [trace EXCEPT ![c] = @ \o Validated(out)]
        /\ IF out.error # NoExc
           THEN Except(c, out.error, "prepare_data")
           ELSE /\ phase' = [phase EXCEPT ![c] = "handler"]
                /\ UNCHANGED <<exc, failedAt, status, response>>
    /\ UNCHANGED appVars
    /\ UNCHANGED <<elk, nextUuid, req, req_id, sink>>

\* handler(request) of server_error_handler enters prepare_data, which
\* validates the body up to its own await handler(request).
PrepareData(c) ==
    /\ phase[c] = "prepare_data"
    /\ LET out == prepare_data(req[c].handler, req[c].body) IN
        /\ data' = [data EXCEPT ![c] = out.data]
        /\ trace' = [trace EXCEPT ![c] = @ \o Validated(out)]
        /\ IF out.error # NoExc
           THEN Except(c, out.error, "prepare_data")
           ELSE /\ phase' = [phase EXCEPT ![c] = "handler"]
                /\ UNCHANGED <<exc, failedAt, status, response>>
    /\ UNCHANGED appVars
    /\ UNCHANGED <<elk, nextUuid, req, req_id, sink>>

\* Exceptions a route handler and its collaborators raise.
HandlerExceptions ==
    {"HTTPUnauthorized", "BadRequestError", "UserWarning", "RuntimeWarning",
     "ValidationError", "PostgresError"}

\* response = await handler(request) returns; a BaseModel is wrapped in
\* web.json_response, anything else is passed through.
HandlerReturns(c) ==
    /\ phase[c] = "handler"
    /\ response' = [response EXCEPT ![c] = HandlerResponse(req[c].handler)]
    /\ trace' = [trace EXCEPT ![c] = @ \o <<"called", "handler_done">>]
    /\ phase' = [phase EXCEPT ![c] = "log_response"]
    /\ UNCHANGED appVars
    /\ UNCHANGED <<elk, nextUuid, req, req_id, data, exc, failedAt, status, sink>>

\* response = await handler(request) raises.
HandlerRaises(c, t) ==
    /\ phase[c] = "handler"
    /\ req[c].handler # "health_check"
    /\ trace' = [trace EXCEPT ![c] = @ \o <<"called", "handler_done">>]
    /\ Except(c, Exc(t, <<t, "raised by the handler">>), "handler")
    /\ UNCHANGED appVars
    /\ UNCHANGED <<elk, nextUuid, req, req_id, data, sink>>

\* await log_response(request, req_id, response, time_end, logger=logger)
LogResponse(c) ==
    /\ phase[c] = "log_response"
    /\ LET out == log_response(elk, req_id[c], response[c]) IN
        /\ Logged(c, out.events)
        /\ IF out.error # NoExc
           THEN Except(c, out.error, "log_response")
           ELSE /\ phase' = [phase EXCEPT ![c] = "return"]
                /\ UNCHANGED <<exc, failedAt, status, response>>
    /\ UNCHANGED appVars
    /\ UNCHANGED <<elk, nextUuid, req, req_id, data>>

\* The response returned without awaiting log_response first.
Return_BeforeLog(c) ==
    /\ phase[c] \in {"log_response", "return"}
    /\ phase' = [phase EXCEPT ![c] = "responded"]
    /\ trace' = [trace EXCEPT ![c] = Append(@, "sent")]
    /\ UNCHANGED appVars
    /\ UNCHANGED <<elk, nextUuid, req, req_id, data, exc, failedAt, status,
                   response, sink>>

\* return response
Return(c) ==
    /\ phase[c] = "return"
    /\ phase' = [phase EXCEPT ![c] = "responded"]
    /\ trace' = [trace EXCEPT ![c] = Append(@, "sent")]
    /\ UNCHANGED appVars
    /\ UNCHANGED <<elk, nextUuid, req, req_id, data, exc, failedAt, status,
                   response, sink>>

\* await log_error(request, req_id, response, <status>, exception=e, logger=logger)
\* inside an except clause: an exception it raises leaves server_error_handler.
LogError(c) ==
    /\ phase[c] = "log_error"
    /\ LET out == log_error(elk, req[c], req_id[c], status[c]) IN
        /\ Logged(c, out.events)
        /\ IF out.error # NoExc
           THEN /\ exc' = [exc EXCEPT ![c] = out.error]
                /\ response' = [response EXCEPT ![c] = NoResponse]
                /\ phase' = [phase EXCEPT ![c] = "propagated"]
           ELSE /\ phase' = [phase EXCEPT ![c] = "raise"]
                /\ UNCHANGED <<exc, response>>
    /\ UNCHANGED appVars
    /\ UNCHANGED <<elk, nextUuid, req, req_id, data, failedAt, status>>

\* raise web.HTTP<status>(text=response.json(), content_type="application/json")
RaiseHTTP(c) ==
    /\ phase[c] = "raise"
    /\ response' = [response EXCEPT ![c].status = status[c]]
    /\ phase' = [phase EXCEPT ![c] = "responded"]
    /\ trace' = [trace EXCEPT ![c] = Append(@, "sent")]
    /\ UNCHANGED appVars
    /\ UNCHANGED <<elk, nextUuid, req, req_id, data, exc, failedAt, status, sink>>

Next ==
    \E c \in Conns :
        \/ \E h \in Handlers, b \in Bodies, hd \in HeaderSets : Receive(c, h, b, hd)
        \/ LogRequest(c)
        \/ PrepareData(c)
        \/ HandlerReturns(c)
        \/ \E t \in HandlerExceptions : HandlerRaises(c, t)
        \/ LogResponse(c)
        \/ Return(c)
        \/ LogError(c)
        \/ RaiseHTTP(c)

Spec == Init /\ [][Next]_vars

-----------------------------------------------------------------------------
(* Requests processed concurrently *)

\* Two connections whose requests are in flight at the same time: every
\* await of one may be followed by a step of the other.
ConcurrentConns == {"c1", "c2"}

ConcurrentHandlers == {"create", "union"}

ConcurrentBodies ==
    {Body("null", "absent", NoArgs),
     Body("object", "name", NoArgs),
     Body("object", "id_name", NoArgs)}

ConcurrentHeaders == {{ContentType}, {ContentType, <<"Authorization", "Bearer tok">>}}

InitConcurrent ==
    /\ elk \in {"absent", "unopened", "open"}
    /\ Idle(ConcurrentConns)
    /\ Mounted

NextConcurrent ==
    \E c \in ConcurrentConns :
        \/ \E h \in ConcurrentHandlers, b \in ConcurrentBodies, hd \in ConcurrentHeaders :
               Receive(c, h, b, hd)
        \/ LogRequest(c)
        \/ PrepareData(c)
        \/ HandlerReturns(c)
        \/ \E t \in {"UserWarning", "PostgresError"} : HandlerRaises(c, t)
        \/ LogResponse(c)
        \/ Return(c)
        \/ LogError(c)
        \/ RaiseHTTP(c)

SpecConcurrent == InitConcurrent /\ [][NextConcurrent]_vars

-----------------------------------------------------------------------------
(* The application of get_app: startup, the five routes on the table, shutdown *)

\* connection_open with no test of self.connection: a new pool replaces the
\* one that is open, which is never closed.
Storage_connection_open_Leaks(conn) ==
    [connection |-> "Pool", error |-> NoExc, did |-> <<"create_pool">>]

\* AsyncpgsaStorage.connection_open: a pool already open is closed and
\* RuntimeWarning raised; otherwise a pool is created.  did: what was done
\* to pools.
Storage_connection_open(conn) ==
    IF conn = "Pool"
    THEN [connection |-> "None",
          error |-> Exc("RuntimeWarning", <<"RuntimeWarning", "previous connection wasn't closed">>),
          did |-> <<"pool.close">>]
    ELSE [connection |-> "Pool", error |-> NoExc, did |-> <<"create_pool">>]

\* AsyncpgsaStorage.connection_close.
Storage_connection_close(conn) ==
    IF conn # "Pool"
    THEN [connection |-> conn,
          error |-> Exc("RuntimeWarning", <<"RuntimeWarning", "close without first opening">>),
          did |-> <<>>]
    ELSE [connection |-> "None", error |-> NoExc, did |-> <<"pool.close">>]

LogstashConnectionError ==
    Exc("LogstashConnectionError",
        <<"LogstashConnectionError", "Logstash connection error. Check your config.">>)

Called(names) == lifecycle' = [lifecycle EXCEPT !.calls = @ \o names]

Stage(st, names, e) ==
    lifecycle' = [stage |-> st, calls |-> lifecycle.calls \o names, error |-> e]

\* connection_open that goes on without the TCP handler when the host does
\* not resolve.
ELKConnectionOpen_BestEffort ==
    /\ lifecycle.stage = "created"
    /\ elk' = "open"
    /\ Stage("elk_open",
             <<"ELKAsync.connection_open">>
                 \o (IF config.ELK_ENABLE THEN <<"create_tcp_handler">> ELSE <<>>),
             NoExc)
    /\ UNCHANGED <<nextUuid, phase, req, req_id, data, exc, failedAt, status,
                   response, sink, trace, config, storage, project, inserted, utcnow>>

\* Startup, first cleanup context: ELKAsync.setup awaits connection_open.
\* create_tcp_handler is called only when enable_logstash; socket.gaierror
\* becomes LogstashConnectionError, raised before self.logger is set.
ELKConnectionOpen ==
    /\ lifecycle.stage = "created"
    /\ IF config.ELK_ENABLE /\ ~config.resolves
       THEN /\ Stage("aborted", <<"ELKAsync.connection_open", "create_tcp_handler">>,
                     LogstashConnectionError)
            /\ UNCHANGED elk
       ELSE /\ elk' = "open"
            /\ Stage("elk_open",
                     <<"ELKAsync.connection_open">>
                         \o (IF config.ELK_ENABLE THEN <<"create_tcp_handler">> ELSE <<>>),
                     NoExc)
    /\ UNCHANGED <<nextUuid, phase, req, req_id, data, exc, failedAt, status,
                   response, sink, trace, config, storage, project, inserted, utcnow>>

\* Startup, second cleanup context: AbstractStorage.setup awaits
\* connection_open; the server accepts requests once it returns.
StorageConnectionOpen ==
    /\ lifecycle.stage = "elk_open"
    /\ LET out == Storage_connection_open(storage) IN
        /\ storage' = out.connection
        /\ Stage(IF out.error = NoExc THEN "serving" ELSE "aborted",
                 <<"AsyncpgsaStorage.connection_open">> \o out.did, out.error)
    /\ UNCHANGED <<elk, nextUuid, phase, req, req_id, data, exc, failedAt, status,
                   response, sink, trace, config, project, inserted, utcnow>>

\* A request is accepted by the running server.
Serve(c, h, b) ==
    /\ lifecycle.stage = "serving"
    /\ Receive(c, h, b, {ContentType})

\* The handler opening the pool for its own query.
Handler_OpensPool(c) ==
    /\ phase[c] = "handler"
    /\ Called(<<"AsyncpgsaStorage.connection_open">>)
    /\ response' = [response EXCEPT ![c] = [status |-> 200, body |-> ResponseSuccess]]
    /\ phase' = [phase EXCEPT ![c] = "log_response"]
    /\ trace' = [trace EXCEPT ![c] = @ \o <<"called", "handler_done">>]
    /\ UNCHANGED <<elk, nextUuid, req, req_id, data, exc, failedAt, status, sink,
                   config, storage, project, inserted, utcnow>>

\* response = await handler(request) of prepare_data for a route of
\* get_routes_v1: the handler runs its query on the table and builds its
\* response model, which prepare_data serializes into web.json_response; an
\* exception of the handler goes to the except clauses.
Handler(c) ==
    /\ phase[c] = "handler"
    /\ \E d \in {0, 1}, m \in {0, 500000} :
        LET h == req[c].handler
            out == Execute(h, data[c].args, project, inserted + 1,
                           DateTime(utcnow + d, m, "naive"))
        IN
        /\ utcnow' = IF h = "create" THEN utcnow + d ELSE utcnow
        /\ inserted' = IF h = "create" THEN inserted + 1 ELSE inserted
        /\ project' = IF out.error = NoExc THEN out.table ELSE project
        /\ \E result \in out.results :
            LET r == Respond(h, result)
                e == IF out.error # NoExc THEN out.error ELSE r.error
            IN
            IF e # NoExc
            THEN Except(c, e, "handler")
            ELSE /\ response' = [response EXCEPT ![c] =
                                    [status |-> 200, body |-> r.body,
                                     text |-> orjson_dumps(r.body)]]
                 /\ phase' = [phase EXCEPT ![c] = "log_response"]
                 /\ UNCHANGED <<exc, failedAt, status>>
    /\ trace' = [trace EXCEPT ![c] = @ \o <<"called", "handler_done">>]
    /\ UNCHANGED <<elk, nextUuid, req, req_id, data, sink, config, lifecycle, storage>>

InFlight(c) == phase[c] \notin {"idle", "responded", "propagated", "cancelled"}

\* Shutdown: the server stops accepting, the handlers still running are
\* cancelled, and the cleanup contexts exit in reverse order, the storage
\* first.
StorageConnectionClose ==
    /\ lifecycle.stage = "serving"
    /\ phase' = [c \in DOMAIN phase |-> IF InFlight(c) THEN "cancelled" ELSE phase[c]]
    /\ LET out == Storage_connection_close(storage) IN
        /\ storage' = out.connection
        /\ Stage("storage_closed",
                 <<"AsyncpgsaStorage.connection_close">> \o out.did, out.error)
    /\ UNCHANGED <<elk, nextUuid, req, req_id, data, exc, failedAt, status,
                   response, sink, trace, config, project, inserted, utcnow>>

\* Shutdown, last: ELKAsync.connection_close closes the TCP handler when
\* there is one; self.logger stays set.
ELKConnectionClose ==
    /\ lifecycle.stage = "storage_closed"
    /\ Stage("stopped",
             <<"ELKAsync.connection_close">>
                 \o (IF config.ELK_ENABLE THEN <<"tcp_handler.close">> ELSE <<>>),
             lifecycle.error)
    /\ UNCHANGED <<elk, nextUuid, phase, req, req_id, data, exc, failedAt, status,
                   response, sink, trace, config, storage, project, inserted, utcnow>>

\* Tables the service may start on: empty, or rows stored by earlier runs.
InitialTables ==
    LET r1 == Row(1, "Old", DateTime(1, 500000, "naive"), None)
        r2 == Row(2, "Older", DateTime(2, 0, "naive"), DateTime(3, 500000, "naive"))
    IN {{}, {r1}, {r1, r2}}

\* The requests sent to the routes: handler and body.
AppRequests ==
    {<<"create", Body("object", "name", Args(n, 0, <<>>, NoFilter))>> :
        n \in {"Alpha", "Beta"}}
    \cup {<<"update", Body("object", "id_name", Args("Beta", i, <<>>, NoFilter))>> :
        i \in {1, 9}}
    \cup {<<"read", Body("object", "uuids", Args("", 0, ids, NoFilter))>> :
        ids \in {<<1>>, <<2, 1>>, <<9>>}}
    \cup {<<"delete", Body("object", "uuids", Args("", 0, ids, NoFilter))>> :
        ids \in {<<1>>, <<1, 9>>}}
    \cup {<<"list", Body("object", "filters", Args("", 0, <<>>, f))>> :
        f \in {NoFilter,
               [NoFilter EXCEPT !.created_gt = Given(DateTime(1, 0, "utc"))],
               [NoFilter EXCEPT !.created_gt = Given(None)],
               [NoFilter EXCEPT !.updated_lt = Given(DateTime(4, 0, "naive"))]}}
    \cup {<<"create", Body("null", "absent", NoArgs)>>,
          <<"update", Body("object", "name", Args("Beta", 0, <<>>, NoFilter))>>}

\* get_app: ELKAsync and AsyncpgsaStorage are constructed, neither is open.
InitApp ==
    /\ elk = "unopened"
    /\ Idle(Conns)
    /\ config \in [ELK_ENABLE : BOOLEAN, resolves : BOOLEAN]
    /\ lifecycle = [stage |-> "created", calls |-> <<>>, error |-> NoExc]
    /\ storage = "None"
    /\ project \in InitialTables
    /\ inserted = Cardinality(project)
    /\ utcnow = 3

NextApp ==
    \/ ELKConnectionOpen
    \/ StorageConnectionOpen
    \/ StorageConnectionClose
    \/ ELKConnectionClose
    \/ \E c \in Conns :
        \/ \E r \in AppRequests : Serve(c, r[1], r[2])
        \/ LogRequest(c)
        \/ PrepareData(c)
        \/ Handler(c)
        \/ LogResponse(c)
        \/ Return(c)
        \/ LogError(c)
        \/ RaiseHTTP(c)

SpecApp == InitApp /\ [][NextApp]_vars

-----------------------------------------------------------------------------
(* AsyncpgsaStorage under any sequence of connection_open and connection_close *)

\* Number of entries in the history of calls after which no call is made.
MaxCalls == 10

\* await storage.connection_open()
connection_open ==
    /\ Len(lifecycle.calls) < MaxCalls
    /\ LET out == Storage_connection_open(storage) IN
        /\ storage' = out.connection
        /\ Stage(lifecycle.stage,
                 <<"AsyncpgsaStorage.connection_open">> \o out.did, out.error)
    /\ UNCHANGED <<elk, nextUuid, phase, req, req_id, data, exc, failedAt, status,
                   response, sink, trace, config, project, inserted, utcnow>>

\* await storage.connection_close()
connection_close ==
    /\ Len(lifecycle.calls) < MaxCalls
    /\ LET out == Storage_connection_close(storage) IN
        /\ storage' = out.connection
        /\ Stage(lifecycle.stage,
                 <<"AsyncpgsaStorage.connection_close">> \o out.did, out.error)
    /\ UNCHANGED <<elk, nextUuid, phase, req, req_id, data, exc, failedAt, status,
                   response, sink, trace, config, project, inserted, utcnow>>

\* AsyncpgsaStorage.__init__: self.connection = None.
InitStorage ==
    /\ elk = "unopened"
    /\ Idle(Conns)
    /\ config = [ELK_ENABLE |-> FALSE, resolves |-> TRUE]
    /\ lifecycle = [stage |-> "created", calls |-> <<>>, error |-> NoExc]
    /\ storage = "None"
    /\ project = {}
    /\ inserted = 0
    /\ utcnow = 0

NextStorage == connection_open \/ connection_close

SpecStorage == InitStorage /\ [][NextStorage]_vars

-----------------------------------------------------------------------------
(* Properties *)

Count(seq, x) == Cardinality({i \in 1..Len(seq) : seq[i] = x})

Before(seq, xs, y) ==
    \A i \in 1..Len(seq) : seq[i] = y => \E j \in 1..(i - 1) : seq[j] \in xs

\* The status code a failing request carries: the one of the except clause
\* while log_error runs, the one of the response once it is sent.
FailureCode(c) == IF phase[c] = "responded" THEN response[c].status ELSE status[c]

InExceptClause(c) == phase[c] \in {"log_error", "raise", "responded"}

\* C1: a failure raised by validation or by the handler gets its status
\* code from its kind alone: HTTPUnauthorized 401, BadRequestError 400,
\* UserWarning 200, every other exception 500, and no other code.
C1_StatusByKind ==
    \A c \in Conns :
        failedAt[c] \in {"prepare_data", "handler"} =>
            LET t == exc[c].type IN
            /\ InExceptClause(c)
            /\ t = "HTTPUnauthorized" => FailureCode(c) = 401
            /\ t = "BadRequestError" => FailureCode(c) = 400
            /\ t = "UserWarning" => FailureCode(c) = 200
            /\ t \notin {"HTTPUnauthorized", "BadRequestError", "UserWarning"}
                   => FailureCode(c) = 500
            /\ FailureCode(c) \in {401, 400, 200, 500}

C1_Witness ==
    \E c \in Conns :
        /\ phase[c] = "responded"
        /\ failedAt[c] = "handler"
        /\ exc[c].type = "UserWarning"
        /\ response[c].status = 200

\* C2: every request to an API handler ends with a body that is one of the
\* two envelopes, success is false exactly when result is an error payload,
\* every failure mapped by an except clause ends as a failure envelope with
\* the exception's type name and text whatever its status, and a handler's
\* envelope has success true and no error payload.
C2_EnvelopeShape ==
    \A c \in Conns :
        (Finished(c) /\ req[c].handler # "health_check") =>
            LET b == response[c].body IN
            /\ b.shape = "envelope"
            /\ b.result.tag \in {"value", "error"}
            /\ b.success = (b.result.tag # "error")
            /\ exc[c] # NoExc =>
                   /\ ~b.success
                   /\ b.result.tag = "error"
                   /\ b.result.error_type = exc[c].type
                   /\ b.result.error_message = Str(exc[c])
            /\ exc[c] = NoExc => (b.success /\ b.result.tag = "value")

\* C3: every request ends responded, with a well-formed response sent
\* exactly once, and no exception leaves server_error_handler, whatever the
\* logging calls do.
C3_AlwaysResponds ==
    \A c \in Conns :
        /\ phase[c] # "propagated"
        /\ Finished(c) =>
               /\ response[c].status \in {200, 400, 401, 500}
               /\ response[c].body.shape # "none"
               /\ Count(trace[c], "sent") = 1

\* C4: when log_request or log_response fails, the handler is still invoked
\* exactly once and the client receives the handler's response.
C4_LogFailureHarmless ==
    \A c \in Conns :
        (Finished(c) /\ failedAt[c] \in {"log_request", "log_response"}) =>
            /\ Count(trace[c], "called") = 1
            /\ phase[c] = "responded"
            /\ response[c] = HandlerResponse(req[c].handler)

\* C5: with an open logger, the RequestEvent is logged before the handler
\* invocation completes and the ResponseEvent or ErrorEvent is logged before
\* the response is sent.
C5_LogBeforeSend ==
    \A c \in Conns :
        elk = "open" =>
            /\ Before(trace[c], {"Request"}, "handler_done")
            /\ Before(trace[c], {"Response", "Error"}, "sent")

C5_Witness ==
    \E c \in Conns :
        /\ elk = "open"
        /\ phase[c] = "responded"
        /\ trace[c] = <<"Request", "validate", "assign", "called", "handler_done",
                        "Response", "sent">>

\* C6: the RequestEvent carries the request's headers without the
\* credential header, whatever the letter case of its name, so the logged
\* headers do not depend on the credential.
C6_NoCredentialLogged ==
    \A c \in Conns :
        \A i \in 1..Len(sink[c]) :
            sink[c][i].type = "Request" =>
                sink[c][i].headers =
                    {p \in req[c].headers : p[1] \notin CredentialNames}

\* C7: for a union annotation every class is tried; a JSON body that
\* validates against exactly one reaches the handler with that object, one
\* that validates against several is refused with the ambiguity message, one
\* that validates against none is refused with the last validation error.
C7_UnionExactlyOne ==
    \A c \in Conns :
        (/\ req[c].handler = "union"
         /\ req[c].body.json # "malformed"
         /\ Count(trace[c], "validate") = 1) =>
            LET classes == Annotation("union")
                n == Cardinality({i \in 1..Len(classes) :
                                      Construct(classes[i], req[c].body) = "ok"})
            IN
            /\ n = 1 =>
                   /\ failedAt[c] # "prepare_data"
                   /\ \E i \in 1..Len(classes) :
                          /\ Construct(classes[i], req[c].body) = "ok"
                          /\ data[c] = Object(classes[i], req[c].body)
            /\ n > 1 =>
                   /\ failedAt[c] = "prepare_data"
                   /\ exc[c] = BadRequestError(SeveralMsg)
                   /\ FailureCode(c) = 400
            /\ n = 0 =>
                   /\ failedAt[c] = "prepare_data"
                   /\ exc[c] = BadRequestError(<<"ValidationError.str",
                                                 classes[Len(classes)]>>)
                   /\ FailureCode(c) = 400

\* The (handler, params) pairs whose body has the required fields with the
\* right types.
C8_WellFormed ==
    {<<"create", "name">>, <<"create", "id_name">>, <<"read", "uuids">>,
     <<"update", "id_name">>, <<"delete", "uuids">>,
     <<"list", "name">>, <<"list", "id_name">>, <<"list", "filters">>}

\* C8: for a single declared shape, a JSON body with the required fields
\* of the right types is constructed and attached as request["data"]; any
\* other JSON body is answered 400 with a BadRequestError failure envelope,
\* which carries the field-level validation detail when the body is an
\* object with a missing or wrongly typed field.
C8_SingleShape ==
    \A c \in Conns :
        (/\ req[c].handler \in RoutesV1
         /\ req[c].body.json # "malformed"
         /\ Count(trace[c], "validate") = 1) =>
            LET cls == Annotation(req[c].handler)[1] IN
            IF /\ req[c].body.json = "object"
               /\ <<req[c].handler, req[c].body.params>> \in C8_WellFormed
            THEN /\ failedAt[c] # "prepare_data"
                 /\ data[c] = Object(cls, req[c].body)
            ELSE /\ failedAt[c] = "prepare_data"
                 /\ data[c] = NoData
                 /\ exc[c].type = "BadRequestError"
                 /\ req[c].body.json = "object" =>
                        exc[c].msg = <<"ValidationError.json", cls>>
                 /\ FailureCode(c) = 400
                 /\ response[c].body.success = FALSE
                 /\ response[c].body.result =
                        [tag |-> "error", error_type |-> "BadRequestError",
                         error_message |-> exc[c].msg]

C8_Witness ==
    \E c \in Conns :
        /\ req[c].handler = "read"
        /\ req[c].body = Body("object", "baduuid", NoArgs)
        /\ phase[c] = "responded"
        /\ response[c].status = 400

C9_Malformed(c) ==
    /\ HasDataAnnotation(req[c].handler)
    /\ req[c].body.json = "malformed"
    /\ phase[c] = "responded"

\* C9 as stated: a malformed JSON body is answered 400 with an error_type
\* that names the parse failure and the parse error text as error_message.
C9_ParseErrorType ==
    \A c \in Conns :
        C9_Malformed(c) =>
            /\ response[c].status = 400
            /\ response[c].body.result.error_type \in {"JSONDecodeError", "ParseError"}
            /\ response[c].body.result.error_message = JSONDecodeError.msg

\* C9 amended: a malformed JSON body is answered 400 with error_type
\* BadRequestError, the type of every validation failure, and the parse
\* error text as error_message.
C9_MalformedIs400 ==
    \A c \in Conns :
        C9_Malformed(c) =>
            /\ response[c].status = 400
            /\ ~response[c].body.success
            /\ response[c].body.result.error_type = "BadRequestError"
            /\ response[c].body.result.error_message = JSONDecodeError.msg

C9_Witness ==
    \E c \in Conns :
        /\ C9_Malformed(c)
        /\ req[c].handler = "create"
        /\ elk = "open"
        /\ response[c].status = 400

\* C10: when validation fails the handler is not invoked, validation runs
\* once, and the request goes through the BadRequestError clause to the 400
\* failure response.
C10_ValidationTerminal ==
    \A c \in Conns :
        (/\ Count(trace[c], "validate") > 0
         /\ prepare_data(req[c].handler, req[c].body).error # NoExc) =>
            /\ Count(trace[c], "validate") = 1
            /\ Count(trace[c], "called") = 0
            /\ failedAt[c] = "prepare_data"
            /\ InExceptClause(c)
            /\ FailureCode(c) = 400
            /\ response[c].body.success = FALSE

C10_Witness ==
    \E c \in Conns :
        /\ req[c].handler = "union"
        /\ req[c].body = Body("object", "id_name", NoArgs)
        /\ failedAt[c] = "prepare_data"
        /\ phase[c] = "responded"
        /\ response[c].status = 400

\* C11: request["data"] is assigned only when validation succeeds and at
\* most once per request, and a request whose validation fails, the union
\* matched by several classes included, is left with no "data".
C11_DataAssignedOnce ==
    \A c \in Conns :
        /\ Count(trace[c], "assign") <= 1
        /\ failedAt[c] = "prepare_data" =>
               (data[c] = NoData /\ Count(trace[c], "assign") = 0)
        /\ data[c] # NoData =>
               /\ Count(trace[c], "assign") = 1
               /\ prepare_data(req[c].handler, req[c].body).error = NoExc

\* C12: for a handler with no "data" annotation, whatever the body,
\* prepare_data neither parses the body nor assigns request["data"] nor
\* fails, and goes on to invoke the handler.
C12_NoShapeNoParse ==
    \A c \in Conns :
        (/\ ~HasDataAnnotation(req[c].handler)
         /\ phase[c] \notin {"idle", "log_request", "prepare_data"}
         /\ failedAt[c] # "log_request") =>
            /\ Count(trace[c], "validate") = 0
            /\ Count(trace[c], "assign") = 0
            /\ data[c] = NoData
            /\ failedAt[c] # "prepare_data"
            /\ phase[c] = "handler" \/ Count(trace[c], "called") = 1

C12_Witness ==
    \E c \in Conns :
        /\ req[c].handler = "health_check"
        /\ req[c].body.json = "malformed"
        /\ phase[c] = "responded"
        /\ response[c].status = 200
        /\ Count(trace[c], "called") = 1

\* C17: with no logger in the application, or an ELKAsync that was never
\* opened, nothing is emitted, no logging call raises, and no request ends
\* without its response.
C17_DisabledLoggerSilent ==
    \A c \in Conns :
        elk \in {"absent", "unopened"} =>
            /\ sink[c] = <<>>
            /\ failedAt[c] \notin {"log_request", "log_response"}
            /\ phase[c] # "propagated"

\* The validation of a request's own handler and body.
C15_Own(c) == prepare_data(req[c].handler, req[c].body)

\* C15: under any interleaving of two requests in flight, a request's
\* validated object is the one built from its own body, its events carry
\* its own request UUID and its own headers, the UUIDs of the two requests
\* differ, and its failure and its response are the ones its own body, its
\* own handler and its own logging calls produce.
C15_Isolation ==
    \A c \in ConcurrentConns :
        /\ Count(trace[c], "validate") = 0 => data[c] = NoData
        /\ Count(trace[c], "validate") > 0 => data[c] = C15_Own(c).data
        /\ \A i \in 1..Len(sink[c]) :
               /\ sink[c][i].request_uuid = req_id[c]
               /\ sink[c][i].type = "Request" =>
                      sink[c][i].headers = PopAuthorization(req[c].headers)
        /\ \A d \in ConcurrentConns \ {c} :
               phase[c] # "idle" => req_id[c] # req_id[d]
        /\ failedAt[c] = "prepare_data" =>
               (C15_Own(c).error # NoExc /\ Count(trace[c], "called") = 0)
        /\ (Count(trace[c], "validate") > 0 /\ C15_Own(c).error # NoExc) =>
               failedAt[c] = "prepare_data"
        /\ (phase[c] = "responded" /\ failedAt[c] = "prepare_data") =>
               response[c] = [status |-> 400, body |-> ResponseFailure(C15_Own(c).error)]
        /\ (phase[c] = "responded" /\ failedAt[c] = "") =>
               response[c] = HandlerResponse(req[c].handler)
        /\ (phase[c] = "responded" /\ failedAt[c] = "handler") =>
               response[c] = [status |-> ExceptStatus(exc[c].type),
                              body |-> ResponseFailure(exc[c])]

\* One request fails validation while the other, received before it was
\* answered, is served by its handler.
C15_Witness ==
    /\ phase["c1"] = "responded"
    /\ failedAt["c1"] = "prepare_data"
    /\ req["c1"].body.params = "id_name"
    /\ phase["c2"] = "responded"
    /\ failedAt["c2"] = ""
    /\ req["c2"].body.params = "name"
    /\ data["c2"] = Object("RequestProjectCreate", req["c2"].body)
    /\ req_id["c2"] = req_id["c1"] + 1
    /\ elk = "open"

-----------------------------------------------------------------------------
(* Properties of the application *)

Ids(rows) == {r.id : r \in rows}

\* The handler of connection c has just returned or raised.
HandlerStep(c) ==
    /\ phase[c] = "handler"
    /\ phase'[c] \in {"log_response", "log_error"}

\* The request of connection c went to handler h with a body it accepted.
Validated_For(c, h) == req[c].handler = h /\ data[c] # NoData

\* The response of a handler that returned: built, logged or sent.
Succeeded(c) ==
    /\ failedAt[c] = ""
    /\ phase[c] \in {"log_response", "return", "responded"}

\* C13: in the text of every success envelope, each datetime is written
\* with the UTC designator and without sub-second digits, for a single
\* Project as for a list of Projects.
C13_UtcWholeSeconds ==
    \A c \in Conns :
        Succeeded(c) =>
            \A i \in 1..Len(response[c].text.rows) :
                LET t == response[c].text.rows[i] IN
                /\ t.created.designator = "Z"
                /\ t.created.micro = 0
                /\ t.updated.designator \in {"Z", "null"}
                /\ t.updated.micro = 0

\* The envelopes the pipeline has built for connection c.
C14_Built(c) ==
    /\ phase[c] \in {"log_response", "return", "log_error", "raise", "responded"}
    /\ response[c].body.shape = "envelope"

\* C14 as stated: parsing the serialized envelope back yields a value equal
\* to the original, and serializing that value again yields the same text.
C14_RoundTrip ==
    \A c \in Conns :
        C14_Built(c) =>
            LET b == response[c].body
                text == orjson_dumps(b)
            IN /\ parse_raw(text) = b
               /\ orjson_dumps(parse_raw(text)) = text

\* Two datetimes that agree up to the microseconds and the tzinfo.
C14_SameSecond(a, b) == (a = None <=> b = None) /\ a.sec = b.sec

\* C14 amended: parsing the serialized envelope back yields the original
\* payload unchanged when it is a failure payload or holds no Project, and
\* otherwise the same Projects with the same ids and names, each datetime
\* at the same whole second and each null still null; serializing the
\* parsed value again yields the same text.
C14_RoundTripToSeconds ==
    \A c \in Conns :
        C14_Built(c) =>
            LET b == response[c].body
                text == orjson_dumps(b)
                back == parse_raw(text)
                was == Payload(b)
                now == Payload(back)
            IN /\ was.rows = <<>> => back = b
               /\ back.success = b.success
               /\ back.result.tag = b.result.tag
               /\ now.kind = was.kind
               /\ Len(now.rows) = Len(was.rows)
               /\ \A i \in 1..Len(was.rows) :
                      /\ now.rows[i].id = was.rows[i].id
                      /\ now.rows[i].name = was.rows[i].name
                      /\ C14_SameSecond(now.rows[i].created, was.rows[i].created)
                      /\ C14_SameSecond(now.rows[i].updated, was.rows[i].updated)
               /\ orjson_dumps(back) = text

\* A list of two rows, one with microseconds and one with updated set, was
\* sent.
C14_Witness ==
    \E c \in Conns :
        /\ phase[c] = "responded"
        /\ Succeeded(c)
        /\ req[c].handler = "read"
        /\ Len(response[c].body.result.rows) = 2
        /\ \E i \in 1..2 : response[c].body.result.rows[i].created.micro # 0
        /\ \E i \in 1..2 : response[c].body.result.rows[i].updated # None

\* The open and close calls made on the logger and on the storage.
C16_Calls ==
    SelectSeq(lifecycle.calls,
              LAMBDA x : x \in {"ELKAsync.connection_open", "ELKAsync.connection_close",
                                "AsyncpgsaStorage.connection_open",
                                "AsyncpgsaStorage.connection_close"})

C16_Order ==
    <<"ELKAsync.connection_open", "AsyncpgsaStorage.connection_open",
      "AsyncpgsaStorage.connection_close", "ELKAsync.connection_close">>

\* C16: the logger and the pool are each opened once, at startup, and
\* closed once, at shutdown, in that order and by no request; a request is
\* received and handled only while both are open.
C16_OpenedOnceClosedOnce ==
    /\ Len(C16_Calls) <= 4
    /\ C16_Calls = SubSeq(C16_Order, 1, Len(C16_Calls))
    /\ lifecycle.stage = "stopped" => C16_Calls = C16_Order
    /\ \A c \in Conns :
           (phase[c] # "idle" /\ lifecycle.stage = "serving") =>
               /\ elk = "open"
               /\ storage = "Pool"
               /\ C16_Calls = SubSeq(C16_Order, 1, 2)
    /\ \A c \in Conns : InFlight(c) => lifecycle.stage = "serving"
    /\ nextUuid > 0 => Len(C16_Calls) >= 2

C16_Witness ==
    /\ lifecycle.stage = "stopped"
    /\ nextUuid = MaxRequests
    /\ storage = "None"
    /\ \E c \in Conns : phase[c] = "responded" /\ Succeeded(c)

\* C18: with remote logging enabled and a host that does not resolve,
\* connection_open raises LogstashConnectionError, startup stops there with
\* the logger unset and the pool unopened, and no request is ever received;
\* with remote logging disabled no TCP handler is created and startup is
\* not aborted.
C18_UnresolvableHostIsFatal ==
    /\ (config.ELK_ENABLE /\ ~config.resolves) =>
           /\ lifecycle.stage \in {"created", "aborted"}
           /\ elk = "unopened"
           /\ storage = "None"
           /\ nextUuid = 0
           /\ \A c \in Conns : phase[c] = "idle"
           /\ lifecycle.stage = "aborted" => lifecycle.error = LogstashConnectionError
    /\ ~config.ELK_ENABLE =>
           /\ "create_tcp_handler" \notin Items(lifecycle.calls)
           /\ lifecycle.stage # "aborted"
           /\ lifecycle.stage # "created" => elk = "open"

C18_Witness ==
    /\ config.ELK_ENABLE
    /\ ~config.resolves
    /\ lifecycle.stage = "aborted"
    /\ lifecycle.calls = <<"ELKAsync.connection_open", "create_tcp_handler">>

\* What create does to the table and returns, at the step of its handler.
C19_Step ==
    \A c \in Conns :
        (HandlerStep(c) /\ Validated_For(c, "create")) =>
            \E row \in project' :
                /\ row.id \notin Ids(project)
                /\ project' = project \cup {row}
                /\ row.name = data[c].args.name
                /\ row.updated = None
                /\ row.created.tz = "naive"
                /\ phase'[c] = "log_response"
                /\ response'[c].status = 200
                /\ response'[c].body.success
                /\ response'[c].body.result.rows = <<row>>

\* What the client of create is answered.
C19_Answer ==
    \A c \in Conns :
        (Finished(c) /\ Validated_For(c, "create")) =>
            /\ phase[c] = "responded"
            /\ response[c].status = 200
            /\ response[c].body.success
            /\ response[c].body.result.rows \in {<<row>> : row \in project}
            /\ response[c].text.success
            /\ LET t == response[c].text.rows[1] IN
                   /\ t.name = data[c].args.name
                   /\ t.updated.designator = "null"
                   /\ t.created.designator # "null"
                   /\ t.id \in Ids(project)

\* C19: a valid create with params.name = N stores one new row, with name
\* N, updated null, a created timestamp and an id no stored row has, leaves
\* every other row as it was, and is answered 200 with a success envelope
\* whose result is that row.
C19_CreateStores == [][C19_Step]_vars /\ []C19_Answer

C19_Witness ==
    \E c \in Conns :
        /\ phase[c] = "responded"
        /\ Validated_For(c, "create")
        /\ data[c].args.name = "Alpha"
        /\ Cardinality(project) = 3
        /\ \E row \in project : row.name = "Alpha" /\ row.id = 3
        /\ response[c].status = 200

\* What update does for an id no row has, at the step of its handler.
C20_Step ==
    \A c \in Conns :
        (/\ HandlerStep(c)
         /\ Validated_For(c, "update")
         /\ data[c].args.id \notin Ids(project)) =>
            /\ project' = project
            /\ phase'[c] = "log_error"
            /\ ~response'[c].body.success

\* What the client of such an update is answered.
C20_Answer ==
    \A c \in Conns :
        (/\ Finished(c)
         /\ Validated_For(c, "update")
         /\ data[c].args.id \notin Ids(project)) =>
            /\ phase[c] = "responded"
            /\ response[c].status = 500
            /\ ~response[c].body.success
            /\ response[c].body.result.tag = "error"
            /\ response[c].body.result.error_type = "ValidationError"
            /\ response[c].body.result.error_message # NoMsg

\* C20: an update whose id matches no stored row changes no row and is
\* answered with a failure envelope carrying an error type and message,
\* never with a success envelope.
C20_UpdateMissingFails == [][C20_Step]_vars /\ []C20_Answer

C20_Witness ==
    \E c \in Conns :
        /\ phase[c] = "responded"
        /\ Validated_For(c, "update")
        /\ data[c].args.id = 9
        /\ project # {}
        /\ response[c].status = 500

-----------------------------------------------------------------------------
(* Events of a request *)

\* How many events of the given types the logger emitted for connection c.
Emitted(c, types) ==
    Cardinality({i \in 1..Len(sink[c]) : sink[c][i].type \in types})

\* C21: with an open logger, a request that has ended has emitted exactly
\* one Request event and exactly one terminal event, a Response or an
\* Error, all carrying the UUID drawn for that request, which is the last
\* one drawn and so differs from the UUID of every earlier request.
C21_OneRequestOneTerminal ==
    \A c \in Conns :
        (elk = "open" /\ Finished(c)) =>
            /\ Emitted(c, {"Request"}) = 1
            /\ Emitted(c, {"Response", "Error"}) = 1
            /\ \A i \in 1..Len(sink[c]) : sink[c][i].request_uuid = req_id[c]
            /\ req_id[c] = nextUuid

-----------------------------------------------------------------------------
(* Properties of the storage *)

\* The pools created and not closed.
LivePools == Count(lifecycle.calls, "create_pool") - Count(lifecycle.calls, "pool.close")

\* The call this step makes: the entry it adds first to the history.
C22_Call(name) ==
    /\ Len(lifecycle'.calls) > Len(lifecycle.calls)
    /\ lifecycle'.calls[Len(lifecycle.calls) + 1] = name

C22_Step ==
    /\ (C22_Call("AsyncpgsaStorage.connection_open") /\ storage = "Pool") =>
           /\ lifecycle'.calls =
                  lifecycle.calls \o <<"AsyncpgsaStorage.connection_open", "pool.close">>
           /\ lifecycle'.error.type = "RuntimeWarning"
           /\ storage' = "None"
    /\ (C22_Call("AsyncpgsaStorage.connection_close") /\ storage = "None") =>
           /\ lifecycle'.calls =
                  lifecycle.calls \o <<"AsyncpgsaStorage.connection_close">>
           /\ lifecycle'.error.type = "RuntimeWarning"
           /\ storage' = storage

C22_AtMostOnePool ==
    /\ LivePools \in {0, 1}
    /\ storage = "Pool" <=> LivePools = 1
    /\ storage \in {"None", "Pool"}

\* C22: after any sequence of connection_open and connection_close calls
\* at most one pool is open, and it is the one the storage holds;
\* connection_open on an open pool closes it, raises RuntimeWarning and
\* leaves no pool; connection_close with no pool raises RuntimeWarning and
\* changes nothing.
C22_OnePool == [][C22_Step]_vars /\ []C22_AtMostOnePool

\* connection_open was called twice in a row, then connection_close.
C22_Witness ==
    /\ lifecycle.calls =
           <<"AsyncpgsaStorage.connection_open", "create_pool",
             "AsyncpgsaStorage.connection_open", "pool.close",
             "AsyncpgsaStorage.connection_close">>
    /\ lifecycle.error.type = "RuntimeWarning"
    /\ storage = "None"

-----------------------------------------------------------------------------
(* Frame of update *)

\* What an update that returns does to the table, at the step of its
\* handler: one row, the one of params.id, takes params.name and keeps its
\* id, created and updated; the other rows stay; the response model holds
\* the row as it is now, and its text the same id and name and the same
\* whole seconds.
C23_Step ==
    \A c \in Conns :
        (/\ HandlerStep(c)
         /\ Validated_For(c, "update")
         /\ phase'[c] = "log_response") =>
            \E old \in project :
                LET new == [old EXCEPT !.name = data[c].args.name] IN
                /\ old.id = data[c].args.id
                /\ project' = (project \ {old}) \cup {new}
                /\ Cardinality(project') = Cardinality(project)
                /\ response'[c].status = 200
                /\ response'[c].body.success
                /\ response'[c].body.result.rows = <<new>>
                /\ LET t == response'[c].text.rows[1] IN
                       /\ t.id = new.id
                       /\ t.name = new.name
                       /\ C14_SameSecond(ParseDateTime(t.created), new.created)
                       /\ C14_SameSecond(ParseDateTime(t.updated), new.updated)

\* What the client of an update that returned is answered.
C23_Answer ==
    \A c \in Conns :
        (/\ Finished(c)
         /\ Validated_For(c, "update")
         /\ failedAt[c] = "") =>
            /\ phase[c] = "responded"
            /\ response[c].status = 200
            /\ Len(response[c].body.result.rows) = 1
            /\ response[c].body.result.rows[1].id = data[c].args.id
            /\ response[c].body.result.rows[1].name = data[c].args.name

\* C23: a successful update changes only the name of the row whose id is
\* params.id: the id, created and updated of that row and every other row
\* of the table are unchanged, and the result of the response is the row
\* after the change.
C23_UpdateChangesOnlyName == [][C23_Step]_vars /\ []C23_Answer

\* The row 1 of a table of two rows was renamed and the other row is as it
\* was.
C23_Witness ==
    \E c \in Conns :
        /\ phase[c] = "responded"
        /\ Validated_For(c, "update")
        /\ data[c].args.id = 1
        /\ response[c].status = 200
        /\ response[c].body.result.rows =
               <<Row(1, "Beta", DateTime(1, 500000, "naive"), None)>>
        /\ project = {Row(1, "Beta", DateTime(1, 500000, "naive"), None),
                      Row(2, "Older", DateTime(2, 0, "naive"),
                          DateTime(3, 500000, "naive"))}

-----------------------------------------------------------------------------
(* The filters of list *)

\* Row r satisfies the filters f, a filter given as null counting as one
\* left out.
C24_Satisfies(r, f) ==
    LET present(k) == f[k].set /\ f[k].value # None IN
    /\ present("created_gt") => Earlier(f.created_gt.value, r.created)
    /\ present("created_lt") => Earlier(r.created, f.created_lt.value)
    /\ present("updated_gt") =>
           (r.updated # None /\ Earlier(f.updated_gt.value, r.updated))
    /\ present("updated_lt") =>
           (r.updated # None /\ Earlier(r.updated, f.updated_lt.value))

\* C24: a list request is answered 200 with exactly the rows of the table
\* that satisfy every filter its params give, the newest created first,
\* a filter given as null counting as one left out.
C24_ListFilters ==
    \A c \in Conns :
        (Finished(c) /\ Validated_For(c, "list")) =>
            /\ phase[c] = "responded"
            /\ response[c].status = 200
            /\ response[c].body.success
            /\ response[c].body.result.rows \in
                   CreatedDesc({r \in project :
                                   C24_Satisfies(r, data[c].args.filter)})

====
